---- MODULE Spec2Model ----
(***************************************************************************)
(* bwq-lint: the lexer (src/src/lexer.rs) and the performance validation   *)
(* rules (crates/bwq_linter/src/validation/rules/performance_rules.rs).    *)
(*                                                                         *)
(* Text is a sequence of characters; a character is a one-character        *)
(* string, except the characters outside ASCII, which are written by their *)
(* code point ("U+0663").                                                  *)
(***************************************************************************)
EXTENDS Integers, Sequences, FiniteSets, TLC

VARIABLES
  lexer,    \* the Lexer struct
  pc,       \* "idle", or "loop" while a tokenize call is running
  tokens,   \* the local Vec<Token> of the running tokenize call
  ret,      \* what the last completed tokenize call returned
  results,  \* every value a tokenize call has returned for this text
  expr,     \* the Expression node handed to a validation rule
  rule,     \* name() of the rule the node is dispatched to
  can,      \* <<b>> once can_validate(expr) has returned b, <<>> before
  outcome   \* <<r>> once validate(expr) has returned r, <<>> before

lexvars == <<lexer, pc, tokens, ret, results>>

rulevars == <<expr, rule, can, outcome>>

vars == <<lexer, pc, tokens, ret, results, expr, rule, can, outcome>>

(***************************************************************************)
(* Bounds of the checked input space.                                      *)
(***************************************************************************)
MaxLen == 3
MaxTail == 3
MaxValLen == 3

(***************************************************************************)
(* Characters and the std character classes the lexer tests.               *)
(***************************************************************************)
AsciiDigits == {"0", "1", "2", "3", "4", "5", "6", "7", "8", "9"}

AsciiLetters ==
  {"a", "b", "c", "d", "e", "f", "i", "j", "l", "p", "u", "x",
   "A", "D", "E", "N", "O", "R", "T"}

\* U+00E9 (e with acute) is alphabetic; U+0663 (ARABIC-INDIC DIGIT THREE) is
\* numeric but neither alphabetic nor an ASCII digit. Both take two bytes.
NonAscii == {"U+00E9", "U+0663"}

is_ascii_digit(ch) == ch \in AsciiDigits

is_alphabetic(ch) == ch \in AsciiLetters \cup {"U+00E9"}

is_alphanumeric(ch) == is_alphabetic(ch) \/ ch \in AsciiDigits \cup {"U+0663"}

len_utf8(ch) == IF ch \in NonAscii THEN 2 ELSE 1

RECURSIVE str_len(_)
\* str::len: the length in bytes
str_len(s) == IF s = <<>> THEN 0 ELSE len_utf8(Head(s)) + str_len(Tail(s))

Nul == "\\0"

\* the texts of at most n characters of S
Seqs(S, n) == UNION {[1..k -> S] : k \in 0..n}

(***************************************************************************)
(* Position, Span, Token.                                                  *)
(***************************************************************************)
Position(l, c, o) == [line |-> l, column |-> c, offset |-> o]

Span(s, e) == [start |-> s, end |-> e]

SpanSingle(p) == Span(p, p)

\* TokenType: the variant, its String payload and its u32 payload
TokenType(k, v, d) == [kind |-> k, value |-> v, distance |-> d]

Plain(k) == TokenType(k, <<>>, <<>>)

Token(tt, sp, raw) == [token_type |-> tt, span |-> sp, raw |-> raw]

NoToken == Token(Plain("None"), SpanSingle(Position(0, 0, 0)), <<>>)

LexerError(p, m) == [position |-> p, message |-> m]

NoError == LexerError(Position(0, 0, 0), <<>>)

Some(s, t) == [self |-> s, tag |-> "Some", token |-> t, error |-> NoError]

Err(s, e) == [self |-> s, tag |-> "Err", token |-> NoToken, error |-> e]

(***************************************************************************)
(* u32 arithmetic of str::parse::<u32>, on two 16-bit limbs so that every  *)
(* intermediate value stays within TLC's 32-bit integers.                  *)
(***************************************************************************)
LimbBase == 2 ^ 16

DigitValue(ch) == CHOOSE n \in 0..9 : ch = ToString(n)

RECURSIVE limbs_mul10_add(_, _)
\* limbs (little-endian) * 10 + carry: <<new limbs, carry out>>
limbs_mul10_add(limbs, carry) ==
  IF limbs = <<>> THEN <<<<>>, carry>>
  ELSE LET v == Head(limbs) * 10 + carry
           rest == limbs_mul10_add(Tail(limbs), v \div LimbBase)
       IN <<<<v % LimbBase>> \o rest[1], rest[2]>>

RECURSIVE parse_digits(_, _)
\* the checked multiply-and-add loop: <<>> on an invalid digit or on overflow
parse_digits(s, acc) ==
  IF s = <<>> THEN <<acc>>
  ELSE IF ~is_ascii_digit(Head(s)) THEN <<>>
  ELSE LET r == limbs_mul10_add(acc, DigitValue(Head(s)))
       IN IF r[2] # 0 THEN <<>> ELSE parse_digits(Tail(s), r[1])

\* str::parse::<u32>: <<limbs>> when Ok, <<>> when Err
parse_u32(s) ==
  IF s = <<>> THEN <<>>
  ELSE IF s = <<"+">> \/ s = <<"-">> THEN <<>>
  ELSE IF Head(s) = "+" THEN parse_digits(Tail(s), <<0, 0>>)
  ELSE parse_digits(s, <<0, 0>>)

(***************************************************************************)
(* Lexer: the struct is the record [input, position, line, column].        *)
(***************************************************************************)
LexerNew(input) == [input |-> input, position |-> 0, line |-> 1, column |-> 1]

is_at_end(self) == self.position >= Len(self.input)

current_char(self) ==
  IF is_at_end(self) THEN Nul ELSE self.input[self.position + 1]

advance(self) ==
  IF ~is_at_end(self) THEN [self EXCEPT !.position = @ + 1] ELSE self

current_position(self) == Position(self.line, self.column, self.position)

\* peek_ahead reading from the current character instead of the one after it
peek_ahead_from_cursor(self, n) ==
  LET last == IF self.position + n <= Len(self.input)
              THEN self.position + n ELSE Len(self.input)
  IN SubSeq(self.input, self.position + 1, last)

peek_ahead(self, n) ==
  LET last == IF self.position + n + 1 <= Len(self.input)
              THEN self.position + n + 1 ELSE Len(self.input)
  IN SubSeq(self.input, self.position + 2, last)

\* self.advance(); self.column += k
step_column(self, k) == [advance(self) EXCEPT !.column = @ + k]

(***************************************************************************)
(* next_token and the read_* scanners. Each returns Some(token) or Err,    *)
(* together with the lexer as it leaves it.                                *)
(***************************************************************************)
Whitespace == {" ", "\t", "\r", "\n"}

SingleCharKind(ch) ==
  CASE ch = "(" -> "LeftParen"
    [] ch = ")" -> "RightParen"
    [] ch = "[" -> "LeftBracket"
    [] ch = "]" -> "RightBracket"
    [] ch = "{" -> "LeftBrace"
    [] ch = "}" -> "RightBrace"
    [] ch = "~" -> "Tilde"
    [] ch = ":" -> "Colon"

SingleChars == {"(", ")", "[", "]", "{", "}", "~", ":"}

\* read_whitespace counting a line break as one more column of the same line
read_whitespace_same_line(self) ==
  LET start_pos == current_position(self)
      ch == current_char(self)
      s1 == [advance(self) EXCEPT !.column = @ + 1]
  IN Some(s1, Token(Plain("Whitespace"), Span(start_pos, current_position(s1)), <<ch>>))

read_whitespace(self) ==
  LET start_pos == current_position(self)
      ch == current_char(self)
      s1 == advance(self)
      s2 == IF ch = "\n" THEN [s1 EXCEPT !.line = @ + 1, !.column = 1]
            ELSE [s1 EXCEPT !.column = @ + 1]
  IN Some(s2, Token(Plain("Whitespace"), Span(start_pos, current_position(s2)), <<ch>>))

read_single_char(self) ==
  LET start_pos == current_position(self)
      ch == current_char(self)
      s1 == step_column(self, 1)
  IN Some(s1, Token(Plain(SingleCharKind(ch)), Span(start_pos, current_position(s1)), <<ch>>))

RECURSIVE quoted_loop(_, _)
quoted_loop(self, value) ==
  IF ~is_at_end(self) /\ current_char(self) # "\""
  THEN LET ch == current_char(self)
           s1 == IF ch = "\n" THEN [self EXCEPT !.line = @ + 1, !.column = 1]
                 ELSE [self EXCEPT !.column = @ + 1]
       IN quoted_loop(advance(s1), Append(value, ch))
  ELSE [self |-> self, value |-> value]

\* read_quoted_string reporting the cursor instead of start_pos
read_quoted_string_at_cursor(self) ==
  LET start_pos == current_position(self)
      open == current_char(self)
      body == quoted_loop(step_column(self, 1), <<>>)
  IN IF is_at_end(body.self)
     THEN Err(body.self, LexerError(current_position(body.self),
                                    <<"Unterminated quoted string">>))
     ELSE LET close == current_char(body.self)
              s2 == step_column(body.self, 1)
          IN Some(s2, Token(TokenType("QuotedString", body.value, <<>>),
                            Span(start_pos, current_position(s2)),
                            <<open>> \o body.value \o <<close>>))

read_quoted_string(self) ==
  LET start_pos == current_position(self)
      open == current_char(self)
      body == quoted_loop(step_column(self, 1), <<>>)
  IN IF is_at_end(body.self)
     THEN Err(body.self, LexerError(start_pos, <<"Unterminated quoted string">>))
     ELSE LET close == current_char(body.self)
              s2 == step_column(body.self, 1)
          IN Some(s2, Token(TokenType("QuotedString", body.value, <<>>),
                            Span(start_pos, current_position(s2)),
                            <<open>> \o body.value \o <<close>>))

is_word_char(ch) ==
  is_alphanumeric(ch) \/ ch \in {"_", ".", "-", "/", "*", "?"}

RECURSIVE word_loop(_, _)
word_loop(self, value) ==
  IF ~is_at_end(self) /\ is_word_char(current_char(self))
  THEN word_loop(step_column(self, 1), Append(value, current_char(self)))
  ELSE [self |-> self, value |-> value]

starts_with(s, prefix) ==
  Len(s) >= Len(prefix) /\ SubSeq(s, 1, Len(prefix)) = prefix

ends_with(s, ch) == s # <<>> /\ s[Len(s)] = ch

NearPrefix == <<"N", "E", "A", "R", "/">>

Word(value) == TokenType("Word", value, <<>>)

\* word_token_type parsing the forward distance with its f still on it
word_token_type_keeps_f(value) ==
  IF value = <<"A", "N", "D">> THEN Plain("And")
  ELSE IF value = <<"O", "R">> THEN Plain("Or")
  ELSE IF value = <<"N", "O", "T">> THEN Plain("Not")
  ELSE IF value = <<"T", "O">> THEN Plain("To")
  ELSE IF starts_with(value, NearPrefix)
  THEN LET stripped == SubSeq(value, Len(NearPrefix) + 1, Len(value))
       IN IF ends_with(value, "f") /\ str_len(value) > 6
          THEN LET distance == parse_u32(stripped)
               IN IF distance # <<>>
                  THEN TokenType("NearForward", <<>>, distance[1])
                  ELSE Word(value)
          ELSE IF str_len(value) > 5
          THEN LET distance == parse_u32(stripped)
               IN IF distance # <<>>
                  THEN TokenType("Near", <<>>, distance[1])
                  ELSE Word(value)
          ELSE Word(value)
  ELSE Word(value)

\* the match on value.as_str() of read_word_or_operator
word_token_type(value) ==
  IF value = <<"A", "N", "D">> THEN Plain("And")
  ELSE IF value = <<"O", "R">> THEN Plain("Or")
  ELSE IF value = <<"N", "O", "T">> THEN Plain("Not")
  ELSE IF value = <<"T", "O">> THEN Plain("To")
  ELSE IF starts_with(value, NearPrefix)
  THEN LET stripped == SubSeq(value, Len(NearPrefix) + 1, Len(value))
       IN IF ends_with(value, "f") /\ str_len(value) > 6
          THEN LET distance == parse_u32(SubSeq(stripped, 1, Len(stripped) - 1))
               IN IF distance # <<>>
                  THEN TokenType("NearForward", <<>>, distance[1])
                  ELSE Word(value)
          ELSE IF str_len(value) > 5
          THEN LET distance == parse_u32(stripped)
               IN IF distance # <<>>
                  THEN TokenType("Near", <<>>, distance[1])
                  ELSE Word(value)
          ELSE Word(value)
  ELSE Word(value)

read_word_or_operator(self) ==
  LET start_pos == current_position(self)
      run == word_loop(self, <<>>)
  IN Some(run.self, Token(word_token_type(run.value),
                          Span(start_pos, current_position(run.self)), run.value))

RECURSIVE number_loop(_, _)
number_loop(self, value) ==
  IF ~is_at_end(self) /\ (is_ascii_digit(current_char(self)) \/ current_char(self) = ".")
  THEN number_loop(step_column(self, 1), Append(value, current_char(self)))
  ELSE [self |-> self, value |-> value]

read_number(self) ==
  LET start_pos == current_position(self)
      run == IF current_char(self) = "-"
             THEN number_loop(step_column(self, 1), <<current_char(self)>>)
             ELSE number_loop(self, <<>>)
  IN Some(run.self, Token(TokenType("Number", run.value, <<>>),
                          Span(start_pos, current_position(run.self)), run.value))

is_tag_char(ch) == is_alphanumeric(ch) \/ ch \in {"_", "*", "?"}

RECURSIVE tag_loop(_, _)
tag_loop(self, value) ==
  IF ~is_at_end(self) /\ is_tag_char(current_char(self))
  THEN tag_loop(step_column(self, 1), Append(value, current_char(self)))
  ELSE [self |-> self, value |-> value]

read_hashtag(self) ==
  LET start_pos == current_position(self)
      run == tag_loop(step_column(self, 1), <<>>)
  IN Some(run.self, Token(TokenType("Hashtag", run.value, <<>>),
                          Span(start_pos, current_position(run.self)),
                          <<"#">> \o run.value))

read_mention(self) ==
  LET start_pos == current_position(self)
      run == tag_loop(step_column(self, 1), <<>>)
  IN Some(run.self, Token(TokenType("Mention", run.value, <<>>),
                          Span(start_pos, current_position(run.self)),
                          <<"@">> \o run.value))

read_comment_start(self) ==
  LET start_pos == current_position(self)
      s3 == [advance(advance(advance(self))) EXCEPT !.column = @ + 3]
  IN Some(s3, Token(Plain("CommentStart"), Span(start_pos, current_position(s3)),
                    <<"<", "<", "<">>))

read_comment_end(self) ==
  LET start_pos == current_position(self)
      s3 == [advance(advance(advance(self))) EXCEPT !.column = @ + 3]
  IN Some(s3, Token(Plain("CommentEnd"), Span(start_pos, current_position(s3)),
                    <<">", ">", ">">>))

read_unexpected(self) ==
  LET start_pos == current_position(self)
      ch == current_char(self)
  IN Err(step_column(self, 1), LexerError(start_pos, <<"Unexpected character", ch>>))

\* the arm of next_token's match that takes the current character
Arm(self) ==
  LET ch == current_char(self)
  IN IF ch \in Whitespace THEN "whitespace"
     ELSE IF ch = "\"" THEN "quoted"
     ELSE IF ch \in SingleChars THEN "single"
     ELSE IF ch = "<" /\ peek_ahead(self, 2) = <<"<", "<">> THEN "comment_start"
     ELSE IF ch = ">" /\ peek_ahead(self, 2) = <<">", ">">> THEN "comment_end"
     ELSE IF ch = "#" THEN "hashtag"
     ELSE IF ch = "@" THEN "mention"
     ELSE IF is_ascii_digit(ch) \/ ch = "-" THEN "number"
     ELSE IF is_alphabetic(ch) \/ ch \in {"_", "*", "?"} THEN "word"
     ELSE "unexpected"

(***************************************************************************)
(* tokenize: a call is in progress while pc = "loop"; ret is the value the *)
(* last completed call returned, results the values returned so far by the *)
(* calls made for this text. tokenize takes &mut self and may be called    *)
(* again on the same Lexer; NewLexer builds a fresh Lexer for the text.    *)
(***************************************************************************)
RetOk(toks) == [tag |-> "Ok", tokens |-> toks, error |-> NoError]

RetErr(e) == [tag |-> "Err", tokens |-> <<>>, error |-> e]

NoReturn == [tag |-> "None", tokens |-> <<>>, error |-> NoError]

\* one iteration of the while loop of tokenize, given what next_token returned
LoopBody(r) ==
  IF r.tag = "Err"
  THEN /\ lexer' = r.self
       /\ pc' = "idle"
       /\ tokens' = <<>>
       /\ ret' = RetErr(r.error)
       /\ results' = results \cup {RetErr(r.error)}
       /\ UNCHANGED rulevars
  ELSE /\ lexer' = r.self
       /\ tokens' = IF r.token.token_type.kind # "Whitespace"
                    THEN Append(tokens, r.token) ELSE tokens
       /\ UNCHANGED <<pc, ret, results>>
       /\ UNCHANGED rulevars

InLoop(arm) == pc = "loop" /\ ~is_at_end(lexer) /\ Arm(lexer) = arm

NewLexer ==
  /\ pc = "idle"
  /\ lexer' = LexerNew(lexer.input)
  /\ UNCHANGED <<pc, tokens, ret, results>>
  /\ UNCHANGED rulevars

TokenizeCall ==
  /\ pc = "idle"
  /\ pc' = "loop"
  /\ tokens' = <<>>
  /\ UNCHANGED <<lexer, ret, results>>
  /\ UNCHANGED rulevars

ScanWhitespace == InLoop("whitespace") /\ LoopBody(read_whitespace(lexer))

ScanQuotedString == InLoop("quoted") /\ LoopBody(read_quoted_string(lexer))

ScanSingleChar == InLoop("single") /\ LoopBody(read_single_char(lexer))

ScanCommentStart == InLoop("comment_start") /\ LoopBody(read_comment_start(lexer))

ScanCommentEnd == InLoop("comment_end") /\ LoopBody(read_comment_end(lexer))

ScanHashtag == InLoop("hashtag") /\ LoopBody(read_hashtag(lexer))

ScanMention == InLoop("mention") /\ LoopBody(read_mention(lexer))

ScanNumber == InLoop("number") /\ LoopBody(read_number(lexer))

ScanWord == InLoop("word") /\ LoopBody(read_word_or_operator(lexer))

ScanUnexpected == InLoop("unexpected") /\ LoopBody(read_unexpected(lexer))

\* eof_tokens returning early, without Eof, when nothing was scanned
eof_tokens_unless_empty(self, toks) ==
  IF toks = <<>> THEN toks
  ELSE Append(toks, Token(Plain("Eof"), SpanSingle(current_position(self)), <<>>))

\* the loop has ended: push Eof and return Ok(tokens)
eof_tokens(self, toks) ==
  Append(toks, Token(Plain("Eof"), SpanSingle(current_position(self)), <<>>))

TokenizeReturn ==
  /\ pc = "loop"
  /\ is_at_end(lexer)
  /\ pc' = "idle"
  /\ tokens' = <<>>
  /\ ret' = RetOk(eof_tokens(lexer, tokens))
  /\ results' = results \cup {RetOk(eof_tokens(lexer, tokens))}
  /\ UNCHANGED lexer
  /\ UNCHANGED rulevars

(***************************************************************************)
(* The validation rules. An Expression node is the record                  *)
(* [tag, kind, value, field, start, end]: tag is the variant; kind and     *)
(* value are the Term of a Term node; field, start and end belong to a     *)
(* Range node. A rule reads nothing else of a node but its span, which it  *)
(* copies into every diagnostic.                                           *)
(***************************************************************************)
Expression(tag, kind, value, field, start, end) ==
  [tag |-> tag, kind |-> kind, value |-> value,
   field |-> field, start |-> start, end |-> end]

TermNode(kind, value) == Expression("Term", kind, value, "None", <<>>, <<>>)

RangeNode(field, start, end) == Expression("Range", "None", <<>>, field, start, end)

OtherNode(tag) == Expression(tag, "None", <<>>, "None", <<>>, <<>>)

Diagnostic(kind, message) == [kind |-> kind, message |-> message]

ValidationResultNew == [errors |-> <<>>, warnings |-> <<>>]

with_error(e) == [errors |-> <<e>>, warnings |-> <<>>]

with_warning(w) == [errors |-> <<>>, warnings |-> <<w>>]

push_error(result, e) == [result EXCEPT !.errors = Append(@, e)]

push_warning(result, w) == [result EXCEPT !.warnings = Append(@, w)]

RECURSIVE first_part(_)
\* value.split('*').first(): the text before the first '*'
first_part(value) ==
  IF value = <<>> \/ Head(value) = "*" THEN <<>>
  ELSE <<Head(value)>> \o first_part(Tail(value))

is_whitespace(ch) == ch \in {" ", "\t", "\n", "\r"}

RECURSIVE trim_start(_)
trim_start(s) ==
  IF s # <<>> /\ is_whitespace(Head(s)) THEN trim_start(Tail(s)) ELSE s

RECURSIVE trim_end(_)
trim_end(s) ==
  IF s # <<>> /\ is_whitespace(s[Len(s)])
  THEN trim_end(SubSeq(s, 1, Len(s) - 1)) ELSE s

trim(s) == trim_end(trim_start(s))

char_count(value, ch) == Cardinality({i \in 1..Len(value) : value[i] = ch})

ReplacementLimit == 3

TooManyTerms ==
  Diagnostic("ValidationError",
             "This wildcard matches too many unique terms. Please make it more specific.")

\* wildcard_validate warning from ReplacementLimit on, not above it
wildcard_validate_from_limit(e) ==
  IF e.tag = "Term" /\ e.kind = "Wildcard"
  THEN LET r1 == IF starts_with(e.value, <<"*">>)
                 THEN push_error(ValidationResultNew,
                                 Diagnostic("InvalidWildcardPlacement", ""))
                 ELSE ValidationResultNew
           first == first_part(e.value)
       IN IF first # <<>> /\ str_len(first) = 1 /\ ends_with(e.value, "*")
          THEN push_error(r1, TooManyTerms)
          ELSE r1
  ELSE IF e.tag = "Term" /\ e.kind = "Replacement"
  THEN IF char_count(e.value, "?") >= ReplacementLimit
       THEN with_warning(Diagnostic("PerformanceWarning",
                "Multiple replacement characters may impact performance"))
       ELSE ValidationResultNew
  ELSE ValidationResultNew

wildcard_validate(e) ==
  IF e.tag = "Term" /\ e.kind = "Wildcard"
  THEN LET r1 == IF starts_with(e.value, <<"*">>)
                 THEN push_error(ValidationResultNew,
                                 Diagnostic("InvalidWildcardPlacement", ""))
                 ELSE ValidationResultNew
           first == first_part(e.value)
       IN IF first # <<>> /\ str_len(first) = 1 /\ ends_with(e.value, "*")
          THEN push_error(r1, TooManyTerms)
          ELSE r1
  ELSE IF e.tag = "Term" /\ e.kind = "Replacement"
  THEN IF char_count(e.value, "?") > ReplacementLimit
       THEN with_warning(Diagnostic("PerformanceWarning",
                "Multiple replacement characters may impact performance"))
       ELSE ValidationResultNew
  ELSE ValidationResultNew

\* wildcard_can_validate forgetting the Replacement terms
wildcard_can_validate_wildcard_only(e) == e.tag = "Term" /\ e.kind = "Wildcard"

wildcard_can_validate(e) ==
  e.tag = "Term" /\ e.kind \in {"Wildcard", "Replacement"}

\* tag_validate testing the value for emptiness without trimming it
tag_validate_untrimmed(value, empty_message, wildcard_message) ==
  IF value = <<>>
  THEN with_error(Diagnostic("ValidationError", empty_message))
  ELSE IF starts_with(value, <<"*">>) \/ starts_with(value, <<"?">>)
  THEN with_warning(Diagnostic("PerformanceWarning", wildcard_message))
  ELSE ValidationResultNew

tag_validate(value, empty_message, wildcard_message) ==
  IF trim(value) = <<>>
  THEN with_error(Diagnostic("ValidationError", empty_message))
  ELSE IF starts_with(value, <<"*">>) \/ starts_with(value, <<"?">>)
  THEN with_warning(Diagnostic("PerformanceWarning", wildcard_message))
  ELSE ValidationResultNew

short_term_validate(e) ==
  IF e.tag # "Term" THEN ValidationResultNew
  ELSE IF e.kind = "Word"
  THEN IF trim(e.value) = <<>>
       THEN push_error(ValidationResultNew,
                       Diagnostic("ValidationError", "Word cannot be empty"))
       ELSE ValidationResultNew
  ELSE IF e.kind = "Phrase"
  THEN IF trim(e.value) = <<>>
       THEN with_error(Diagnostic("ValidationError", "Quoted phrase cannot be empty"))
       ELSE ValidationResultNew
  ELSE IF e.kind = "Hashtag"
  THEN tag_validate(e.value, "Hashtag cannot be empty",
         "Wildcard usage after '#' is discouraged and may lead to unexpected results")
  ELSE IF e.kind = "Mention"
  THEN tag_validate(e.value, "Mention cannot be empty",
         "Wildcard usage after '@' is discouraged and may lead to unexpected results")
  ELSE ValidationResultNew

short_term_can_validate(e) == e.tag = "Term"

(***************************************************************************)
(* str::parse::<i64>: the magnitude on four 16-bit limbs.                  *)
(***************************************************************************)
ZeroLimbs == <<0, 0, 0, 0>>

\* <<[neg, mag]>> when Ok, <<>> when Err
parse_i64(s) ==
  IF s = <<>> \/ s = <<"+">> \/ s = <<"-">> THEN <<>>
  ELSE LET neg == Head(s) = "-"
           digits == IF Head(s) \in {"+", "-"} THEN Tail(s) ELSE s
           mag == parse_digits(digits, ZeroLimbs)
       IN IF mag = <<>> THEN <<>>
          ELSE LET top == mag[1][4]
                   low_zero == \A i \in 1..3 : mag[1][i] = 0
               IN IF top < LimbBase \div 2
                       \/ (neg /\ top = LimbBase \div 2 /\ low_zero)
                  THEN <<[neg |-> neg /\ mag[1] # ZeroLimbs, mag |-> mag[1]]>>
                  ELSE <<>>

FollowerLimit == 1000000000

to_limbs(n) == <<n % LimbBase, n \div LimbBase, 0, 0>>

RECURSIVE limbs_greater(_, _)
\* a > b, for magnitudes of the same number of limbs
limbs_greater(a, b) ==
  IF a = <<>> THEN FALSE
  ELSE LET k == Len(a)
       IN IF a[k] # b[k] THEN a[k] > b[k]
          ELSE limbs_greater(SubSeq(a, 1, k - 1), SubSeq(b, 1, k - 1))

i64_negative(n) == n.neg

\* i64_greater_than as >=
i64_at_least(n, limit) == ~n.neg /\ ~limbs_greater(to_limbs(limit), n.mag)

i64_greater_than(n, limit) == ~n.neg /\ limbs_greater(n.mag, to_limbs(limit))

range_validate(e) ==
  IF e.tag = "Range" /\ e.field = "AuthorFollowers"
  THEN LET start_num == parse_i64(e.start)
           end_num == parse_i64(e.end)
       IN IF start_num # <<>> /\ end_num # <<>>
          THEN LET r1 == IF i64_negative(start_num[1]) \/ i64_negative(end_num[1])
                         THEN push_error(ValidationResultNew,
                                Diagnostic("RangeValidationError",
                                           "Follower counts cannot be negative"))
                         ELSE ValidationResultNew
               IN IF i64_greater_than(end_num[1], FollowerLimit)
                  THEN push_warning(r1,
                         Diagnostic("PerformanceWarning",
                                    "Very large follower counts may not match any results"))
                  ELSE r1
          ELSE ValidationResultNew
  ELSE ValidationResultNew

range_can_validate(e) == e.tag = "Range" /\ e.field = "AuthorFollowers"

(***************************************************************************)
(* Dispatch of one node to one rule: can_validate and validate are applied *)
(* to the same node, in either order.                                      *)
(***************************************************************************)
NoExpr == OtherNode("None")

Dispatch(name) == expr # NoExpr /\ rule \in {"none", name} /\ rule' = name

CanValidate(name, answer) ==
  /\ Dispatch(name)
  /\ can = <<>>
  /\ can' = <<answer>>
  /\ UNCHANGED <<expr, outcome>>
  /\ UNCHANGED lexvars

Validate(name, result) ==
  /\ Dispatch(name)
  /\ outcome = <<>>
  /\ outcome' = <<result>>
  /\ UNCHANGED <<expr, can>>
  /\ UNCHANGED lexvars

WildcardCanValidate == CanValidate("wildcard-performance", wildcard_can_validate(expr))

WildcardValidate == Validate("wildcard-performance", wildcard_validate(expr))

ShortTermCanValidate == CanValidate("short-term", short_term_can_validate(expr))

ShortTermValidate == Validate("short-term", short_term_validate(expr))

RangeCanValidate == CanValidate("range-performance", range_can_validate(expr))

RangeValidate == Validate("range-performance", range_validate(expr))

TermKinds ==
  {"Word", "Phrase", "Wildcard", "Replacement", "Hashtag", "Mention",
   "CaseSensitive", "Number"}

ValueAlphabet == {"a", "*", "?", " ", "U+00E9"}

ExtraValues ==
  { <<"?", "?", "?", "?">>, <<"a", "?", "?", "?">>, <<"a", "?", "?", "?", "?">>,
    <<"?", "?", "?", "?", "?">>, <<"a", "p", "p", "l", "e", "*">>,
    <<"a", "*", "b", "*">>, <<"a", "b", "*", "c", "*">> }

Values == Seqs(ValueAlphabet, MaxValLen) \cup ExtraValues

Fields == {"None", "AuthorFollowers", "Title"}

RangeBounds ==
  { <<"0">>, <<"1", "0", "0">>, <<"-", "5">>, <<"-", "0">>, <<"+", "5">>,
    <<"1", "0", "0", "0", "0", "0", "0", "0", "0", "0">>,
    <<"1", "0", "0", "0", "0", "0", "0", "0", "0", "1">>,
    <<"0", "9", "9", "9", "9", "9", "9", "9", "9", "9">>,
    <<"2", "0", "0", "0", "0", "0", "0", "0", "0", "0">>,
    <<"9", "2", "2", "3", "3", "7", "2", "0", "3", "6", "8", "5", "4", "7", "7", "5", "8", "0", "7">>,
    <<"9", "2", "2", "3", "3", "7", "2", "0", "3", "6", "8", "5", "4", "7", "7", "5", "8", "0", "8">>,
    <<"-", "9", "2", "2", "3", "3", "7", "2", "0", "3", "6", "8", "5", "4", "7", "7", "5", "8", "0", "8">>,
    <<"-", "9", "2", "2", "3", "3", "7", "2", "0", "3", "6", "8", "5", "4", "7", "7", "5", "8", "0", "9">>,
    <<"a", "b", "c">>, <<>>, <<"-">>, <<" ", "5">>, <<"1", ".", "5">>, <<"*">> }

OtherTags == {"And", "Or", "Not", "Group", "Field", "Proximity"}

Nodes ==
  {TermNode(k, v) : k \in TermKinds, v \in Values}
    \cup {RangeNode(f, s, e) : f \in Fields, s \in RangeBounds, e \in RangeBounds}
    \cup {OtherNode(t) : t \in OtherTags}

InitRules ==
  /\ lexer = LexerNew(<<>>)
  /\ pc = "idle"
  /\ tokens = <<>>
  /\ ret = NoReturn
  /\ results = {}
  /\ expr \in Nodes
  /\ rule = "none"
  /\ can = <<>>
  /\ outcome = <<>>

NextRules ==
  \/ WildcardCanValidate
  \/ WildcardValidate
  \/ ShortTermCanValidate
  \/ ShortTermValidate
  \/ RangeCanValidate
  \/ RangeValidate

SpecRules == InitRules /\ [][NextRules]_vars


(***************************************************************************)
(* The texts the lexer is run on.                                          *)
(***************************************************************************)
Alphabet == {" ", "\n", "\"", "(", "<", ">", "#", "@", "-", "5", "a", "!"}

TailAlphabet == {"0", "5", "f", "a", "/", " ", "U+0663"}

ExtraInputs ==
  { <<"a", "p", "p", "l", "e", " ", "A", "N", "D", " ", "j", "u", "i", "c", "e">>,
    <<"\"", "a", "p", "p", "l", "e", " ", "j", "u", "i", "c", "e", "\"">>,
    <<"N", "E", "A", "R", "/", "5", " ", "N", "E", "A", "R", "/", "3", "f">>,
    <<"a", " ", "O", "R", " ", "N", "O", "T", " ", "b">>,
    NearPrefix \o <<"5", " ">> \o NearPrefix \o <<"5", "f", " ">>
      \o NearPrefix \o <<"a", "b", "c", " ">> \o NearPrefix,
    <<"[", "1", " ", "T", "O", " ", "-", "3", ".", "1", "4", "]">>,
    <<"(", ")", "{", "}", "~", ":", "\t", "\r", "\n", "x">>,
    <<"#", "a", "*", "?", "_", " ", "@", "U+00E9", "1">>,
    <<"a", ".", "b", "-", "c", "/", "d", "*", "?", "_">>,
    <<"N", "E", "A", "R", "/", "4", "2", "9", "4", "9", "6", "7", "2", "9", "5">>,
    <<"N", "E", "A", "R", "/", "4", "2", "9", "4", "9", "6", "7", "2", "9", "6">>,
    <<"N", "E", "A", "R", "/", "4", "2", "9", "4", "9", "6", "7", "2", "9", "5", "f">>,
    <<"N", "E", "A", "R", "/", "4", "2", "9", "4", "9", "6", "7", "2", "9", "6", "f">>,
    <<"N", "E", "A", "R", "/", "6", "5", "5", "3", "6">>,
    <<"N", "E", "A", "R", "/", "0", "0", "0", "0", "0", "0", "0", "0", "0", "0", "7">>,
    <<"<", "<", "<", "<">>,
    <<">", ">", ">", ">", ">", ">">>,
    <<"<", "<", "<", "<", "<", "<", "<">>,
    <<"<", "<", "<", "a", " ", "b", ">", ">", ">">>,
    <<"a", "<", "<", "<", "<", "<", ">", ">", ">", ">">>,
    <<"-", "a", " ", "-", ".", " ", "-", "-", "5">>,
    <<"a", " ", "\"", "b", "\n", "\n", "c", "\"", " ", "d", "\n", " ", "#", "e">>,
    <<"\"", "\n", "\"", "<", "<", "<", "\r", "\n", "-", "1", "!", "x">> }

Inputs ==
  Seqs(Alphabet, MaxLen)
    \cup {NearPrefix \o t : t \in Seqs(TailAlphabet, MaxTail)}
    \cup ExtraInputs

Init ==
  /\ lexer \in {LexerNew(input) : input \in Inputs}
  /\ pc = "idle"
  /\ tokens = <<>>
  /\ ret = NoReturn
  /\ results = {}
  /\ expr = NoExpr
  /\ rule = "none"
  /\ can = <<>>
  /\ outcome = <<>>

Next ==
  \/ NewLexer
  \/ TokenizeCall
  \/ ScanWhitespace
  \/ ScanQuotedString
  \/ ScanSingleChar
  \/ ScanCommentStart
  \/ ScanCommentEnd
  \/ ScanHashtag
  \/ ScanMention
  \/ ScanNumber
  \/ ScanWord
  \/ ScanUnexpected
  \/ TokenizeReturn

Spec == Init /\ [][Next]_vars


(***************************************************************************)
(* Properties of the lexer, checked under Spec.                            *)
(***************************************************************************)
\* the characters of text from offset from (inclusive) to offset to (exclusive)
Slice(text, from, to) == SubSeq(text, from + 1, to)

AllWhitespace(s) == \A i \in 1..Len(s) : s[i] \in {" ", "\t", "\r", "\n"}

\* the position that the first off characters of text lead to
LineAt(text, off) == 1 + Cardinality({i \in 1..off : text[i] = "\n"})

ColumnAt(text, off) ==
  LET breaks == {i \in 1..off : text[i] = "\n"}
      last == IF breaks = {} THEN 0 ELSE CHOOSE i \in breaks : \A j \in breaks : j <= i
  IN 1 + off - last

PositionAt(text, off) == Position(LineAt(text, off), ColumnAt(text, off), off)

RECURSIVE Rebuild(_, _, _)
\* the raw text of toks in order, each preceded by the input it skipped since from
Rebuild(text, toks, from) ==
  IF toks = <<>> THEN Slice(text, from, Len(text))
  ELSE Slice(text, from, Head(toks).span.start.offset)
         \o Head(toks).raw
         \o Rebuild(text, Tail(toks), Head(toks).span.end.offset)

RoundTrip(text, toks) ==
  /\ \A i \in 1..Len(toks) :
       /\ toks[i].span.start.offset <= toks[i].span.end.offset
       /\ toks[i].span.end.offset <= Len(text)
       /\ toks[i].raw = Slice(text, toks[i].span.start.offset, toks[i].span.end.offset)
  /\ \A i \in 1..Len(toks) :
       LET from == IF i = 1 THEN 0 ELSE toks[i - 1].span.end.offset
       IN /\ from <= toks[i].span.start.offset
          /\ AllWhitespace(Slice(text, from, toks[i].span.start.offset))
  /\ Rebuild(text, toks, 0) = text

\* C1: when tokenize succeeds, every returned token's raw text is the input
\* between its span's offsets, and the tokens in order, with the skipped
\* whitespace put back in the gaps between the spans, rebuild the whole input.
C1_RoundTrip == ret.tag = "Ok" => RoundTrip(lexer.input, ret.tokens)

\* C2: every tokenize call made for the same text returns the same result.
C2_SameResult == Cardinality(results) <= 1

HasLaterQuote(self) ==
  \E i \in (self.position + 2)..Len(self.input) : self.input[i] = "\""

AtOpenQuote ==
  pc = "loop" /\ ~is_at_end(lexer) /\ current_char(lexer) = "\"" /\ ~HasLaterQuote(lexer)

\* C3: when the scanner is at a quote that no later quote closes, the call
\* fails with a LexerError at the opening quote's own line, column and offset,
\* and returns no tokens.
C3_UnterminatedQuote ==
  [][AtOpenQuote =>
       /\ pc' = "idle"
       /\ ret'.tag = "Err"
       /\ ret'.tokens = <<>>
       /\ ret'.error.message = <<"Unterminated quoted string">>
       /\ ret'.error.position = PositionAt(lexer.input, lexer.position)]_vars

\* a call failed at a quote that follows other tokens, and the unterminated
\* text ran over a line break
C3_Witness ==
  /\ pc = "idle"
  /\ ret.tag = "Err"
  /\ ret.error.message = <<"Unterminated quoted string">>
  /\ ret.error.position.offset > 0
  /\ lexer.line > ret.error.position.line
  /\ \E i \in 1..ret.error.position.offset : lexer.input[i] \notin {" ", "\n"}

\* C9: a returned token sequence holds exactly one Eof, as its last token,
\* with a zero-width span at the offset that is the length of the input.
C9_EofLast ==
  ret.tag = "Ok" =>
    LET n == Len(ret.tokens)
    IN /\ n >= 1
       /\ \A i \in 1..n : (ret.tokens[i].token_type.kind = "Eof") <=> (i = n)
       /\ ret.tokens[n].span.start = ret.tokens[n].span.end
       /\ ret.tokens[n].span.end.offset = Len(lexer.input)
       /\ ret.tokens[n].raw = <<>>

\* a call on a text of nothing but whitespace returned
C9_Witness ==
  /\ ret.tag = "Ok"
  /\ Len(lexer.input) >= 2
  /\ AllWhitespace(lexer.input)
  /\ Len(ret.tokens) = 1


(***************************************************************************)
(* Decimal numerals, for stating what a digit run denotes.                 *)
(***************************************************************************)
IsDigits(s) == s # <<>> /\ \A i \in 1..Len(s) : s[i] \in AsciiDigits

RECURSIVE Canon(_)
\* the numeral without its leading zeros
Canon(s) == IF Len(s) > 1 /\ Head(s) = "0" THEN Canon(Tail(s)) ELSE s

\* a < b, for numerals without leading zeros
NumeralLess(a, b) ==
  \/ Len(a) < Len(b)
  \/ /\ Len(a) = Len(b)
     /\ \E i \in 1..Len(a) :
          /\ DigitValue(a[i]) < DigitValue(b[i])
          /\ \A j \in 1..(i - 1) : a[j] = b[j]

U32MaxNumeral == <<"4", "2", "9", "4", "9", "6", "7", "2", "9", "5">>

FitsU32(s) == ~NumeralLess(U32MaxNumeral, Canon(s))

RECURSIVE U32Numeral(_)
\* the decimal numeral of the u32 held in the limbs <<low, high>>
U32Numeral(d) ==
  LET x == (d[2] % 10) * LimbBase + d[1]
  IN IF d[2] = 0 /\ d[1] < 10 THEN <<ToString(d[1])>>
     ELSE U32Numeral(<<x \div 10, d[2] \div 10>>) \o <<ToString(x % 10)>>

WordShaped == {"Word", "And", "Or", "Not", "To", "Near", "NearForward"}

Seen == {tokens[i] : i \in 1..Len(tokens)} \cup {ret.tokens[i] : i \in 1..Len(ret.tokens)}

IsMaximalRun(t) ==
  /\ t.raw = Slice(lexer.input, t.span.start.offset, t.span.end.offset)
  /\ \/ t.span.end.offset = Len(lexer.input)
     \/ ~is_word_char(lexer.input[t.span.end.offset + 1])

NearAsClaimed(t) ==
  LET rest == SubSeq(t.raw, 6, Len(t.raw))
      front == SubSeq(rest, 1, Len(rest) - 1)
  IN IF IsDigits(rest) /\ FitsU32(rest)
     THEN /\ t.token_type.kind = "Near"
          /\ U32Numeral(t.token_type.distance) = Canon(rest)
     ELSE IF ends_with(rest, "f") /\ IsDigits(front) /\ FitsU32(front)
     THEN /\ t.token_type.kind = "NearForward"
          /\ U32Numeral(t.token_type.distance) = Canon(front)
     ELSE t.token_type = TokenType("Word", t.raw, <<>>)

\* C4: a maximal word run that starts with NEAR/ is Near(n) when the rest is
\* a digit run of value n that fits u32, NearForward(n) when the rest is such
\* a digit run followed by one f, and otherwise a Word holding the whole run.
C4_NearReclassified ==
  \A t \in Seen :
    (t.token_type.kind \in WordShaped /\ starts_with(t.raw, NearPrefix))
      => IsMaximalRun(t) /\ NearAsClaimed(t)

\* one call returned a Near, a NearForward and the word NEAR/abc
C4_Witness ==
  /\ ret.tag = "Ok"
  /\ \E i, j, k \in 1..Len(ret.tokens) :
       /\ ret.tokens[i].token_type.kind = "Near"
       /\ ret.tokens[j].token_type.kind = "NearForward"
       /\ ret.tokens[k].token_type = Word(NearPrefix \o <<"a", "b", "c">>)


(***************************************************************************)
(* Properties of the validation rules, checked under SpecRules.            *)
(***************************************************************************)
Validated(name) == rule = name /\ outcome # <<>>

Count(diags, kind) == Cardinality({i \in 1..Len(diags) : diags[i].kind = kind})

CountMessage(diags, message) ==
  Cardinality({i \in 1..Len(diags) : diags[i].message = message})

Nothing(r) == r.errors = <<>> /\ r.warnings = <<>>

\* the characters of v before its first '*' (all of v when it has none)
BeforeStar(v) ==
  LET stars == {i \in 1..Len(v) : v[i] = "*"}
  IN IF stars = {} THEN v
     ELSE SubSeq(v, 1, (CHOOSE i \in stars : \A j \in stars : i <= j) - 1)

BeginsWithStar(v) == v # <<>> /\ v[1] = "*"

TooBroad(v) == Len(BeforeStar(v)) = 1 /\ v # <<>> /\ v[Len(v)] = "*"

\* C5: on a Wildcard term the rule returns no warning, one
\* InvalidWildcardPlacement iff the value begins with '*', one 'too many
\* unique terms' error iff the text before the first '*' has length 1 and the
\* value ends with '*', no other error, and never both errors.
C5_WildcardErrors ==
  (Validated("wildcard-performance") /\ expr.tag = "Term" /\ expr.kind = "Wildcard")
    => LET r == outcome[1]
           placement == IF BeginsWithStar(expr.value) THEN 1 ELSE 0
           broad == IF TooBroad(expr.value) THEN 1 ELSE 0
       IN /\ r.warnings = <<>>
          /\ Count(r.errors, "InvalidWildcardPlacement") = placement
          /\ CountMessage(r.errors, TooManyTerms.message) = broad
          /\ Len(r.errors) = placement + broad
          /\ Len(r.errors) <= 1

QuestionMarks(v) == Cardinality({i \in 1..Len(v) : v[i] = "?"})

\* C6: on a Replacement term the rule returns no error, no warning when the
\* value holds at most 3 '?', and exactly one PerformanceWarning when it holds
\* 4 or more.
C6_ReplacementThreshold ==
  (Validated("wildcard-performance") /\ expr.tag = "Term" /\ expr.kind = "Replacement")
    => LET r == outcome[1]
       IN /\ r.errors = <<>>
          /\ QuestionMarks(expr.value) <= 3 => r.warnings = <<>>
          /\ QuestionMarks(expr.value) >= 4 =>
               Len(r.warnings) = 1 /\ r.warnings[1].kind = "PerformanceWarning"

\* a Replacement term of exactly 4 '?' was warned about
C6_Witness ==
  /\ Validated("wildcard-performance")
  /\ expr.kind = "Replacement"
  /\ QuestionMarks(expr.value) = 4
  /\ Len(outcome[1].warnings) = 1

StartsWithWildcard(v) == v # <<>> /\ v[1] \in {"*", "?"}

OneError(r) == Len(r.errors) = 1 /\ r.warnings = <<>>

OneWarning(r) ==
  r.errors = <<>> /\ Len(r.warnings) = 1 /\ r.warnings[1].kind = "PerformanceWarning"

\* C7: ShortTermRule returns at most one diagnostic per term: one error for a
\* Word or Phrase whose trimmed value is empty; for a Hashtag or Mention one
\* error when its trimmed value is empty, else one PerformanceWarning when the
\* value starts with '*' or '?', else nothing; nothing for the other kinds.
C7_ShortTerm ==
  (Validated("short-term") /\ expr.tag = "Term")
    => LET r == outcome[1]
           v == expr.value
       IN /\ Len(r.errors) + Len(r.warnings) <= 1
          /\ (expr.kind \in {"Word", "Phrase"} /\ AllWhitespace(v)) => OneError(r)
          /\ expr.kind \in {"Hashtag", "Mention"} =>
               IF AllWhitespace(v) THEN OneError(r)
               ELSE IF StartsWithWildcard(v) THEN OneWarning(r)
               ELSE Nothing(r)
          /\ expr.kind \notin {"Word", "Phrase", "Hashtag", "Mention"} => Nothing(r)

\* a Mention of blanks only was reported as empty
C7_Witness ==
  /\ Validated("short-term")
  /\ expr.kind = "Mention"
  /\ expr.value # <<>>
  /\ AllWhitespace(expr.value)
  /\ OneError(outcome[1])

Unsigned(s) == IF s # <<>> /\ Head(s) \in {"+", "-"} THEN Tail(s) ELSE s

I64MaxNumeral ==
  <<"9", "2", "2", "3", "3", "7", "2", "0", "3", "6", "8", "5", "4", "7", "7", "5", "8", "0", "7">>

I64MinNumeral ==
  <<"9", "2", "2", "3", "3", "7", "2", "0", "3", "6", "8", "5", "4", "7", "7", "5", "8", "0", "8">>

\* s is a decimal integer that an i64 holds
ParsesAsInteger(s) ==
  /\ IsDigits(Unsigned(s))
  /\ ~NumeralLess(IF Head(s) = "-" THEN I64MinNumeral ELSE I64MaxNumeral,
                  Canon(Unsigned(s)))

IsNegative(s) == Head(s) = "-" /\ Canon(Unsigned(s)) # <<"0">>

LimitNumeral == <<"1", "0", "0", "0", "0", "0", "0", "0", "0", "0">>

AboveLimit(s) == ~IsNegative(s) /\ NumeralLess(LimitNumeral, Canon(Unsigned(s)))

\* C8: on an AuthorFollowers Range whose bounds both parse as integers the
\* rule returns one 'cannot be negative' RangeValidationError iff a bound is
\* negative and one PerformanceWarning iff the end is above 1,000,000,000,
\* and nothing else; when a bound does not parse it returns nothing.
C8_FollowerRange ==
  (Validated("range-performance") /\ expr.tag = "Range" /\ expr.field = "AuthorFollowers")
    => LET r == outcome[1]
       IN IF ParsesAsInteger(expr.start) /\ ParsesAsInteger(expr.end)
          THEN /\ Len(r.errors) =
                    IF IsNegative(expr.start) \/ IsNegative(expr.end) THEN 1 ELSE 0
               /\ \A i \in 1..Len(r.errors) :
                    r.errors[i] = Diagnostic("RangeValidationError",
                                             "Follower counts cannot be negative")
               /\ Len(r.warnings) = IF AboveLimit(expr.end) THEN 1 ELSE 0
               /\ \A i \in 1..Len(r.warnings) : r.warnings[i].kind = "PerformanceWarning"
          ELSE Nothing(r)

\* a negative start with an end above the limit got the error and the warning
C8_Witness ==
  /\ Validated("range-performance")
  /\ expr.tag = "Range"
  /\ expr.start = <<"-", "5">>
  /\ Len(outcome[1].errors) = 1
  /\ Len(outcome[1].warnings) = 1

\* C10: a node that a rule's can_validate refuses gets no diagnostic from
\* that rule's validate.
C10_CanValidateAgrees ==
  (can = <<FALSE>> /\ outcome # <<>>) => Nothing(outcome[1])

\* the wildcard rule refused a Hashtag that starts with '*', and its validate
\* returned nothing for it
C10_Witness ==
  /\ rule = "wildcard-performance"
  /\ can = <<FALSE>>
  /\ outcome # <<>>
  /\ expr.kind = "Hashtag"
  /\ StartsWithWildcard(expr.value)

(***************************************************************************)
(* The number branch and a minus sign without digits.                      *)
(***************************************************************************)
HasDigit(s) == \E i \in 1..Len(s) : is_ascii_digit(s[i])

\* C11: no Number token has a value without a digit in it, so a "-" that no
\* digit follows is never scanned as a Number token.
C11_NoBareMinus ==
  \A t \in Seen : t.token_type.kind = "Number" => HasDigit(t.token_type.value)

(***************************************************************************)
(* The comment delimiters.                                                 *)
(***************************************************************************)
\* the offsets [from, to) of the longest run of one character around offset off
RunAround(text, off) ==
  LET ch == text[off + 1]
      from == CHOOSE a \in 0..off :
                /\ \A i \in (a + 1)..(off + 1) : text[i] = ch
                /\ a = 0 \/ text[a] # ch
      to == CHOOSE b \in (off + 1)..Len(text) :
              /\ \A i \in (off + 1)..b : text[i] = ch
              /\ b = Len(text) \/ text[b + 1] # ch
  IN [from |-> from, to |-> to]

RunLength(text, off) == RunAround(text, off).to - RunAround(text, off).from

Delimiters == {"CommentStart", "CommentEnd"}

Bracket(kind) == IF kind = "CommentStart" THEN "<" ELSE ">"

\* C12 as stated: a returned CommentStart or CommentEnd token begins in a run
\* of exactly three of its angle bracket; runs of any other length yield none.
C12_RunOfExactlyThree ==
  \A i \in 1..Len(ret.tokens) :
    ret.tokens[i].token_type.kind \in Delimiters =>
      RunLength(lexer.input, ret.tokens[i].span.start.offset) = 3

\* t is three consecutive ch of the input, a whole group of three counted
\* from the left end of the run of ch it lies in
GroupOfThree(t, ch) ==
  /\ t.raw = <<ch, ch, ch>>
  /\ t.span.end.offset = t.span.start.offset + 3
  /\ t.span.end.offset <= Len(lexer.input)
  /\ Slice(lexer.input, t.span.start.offset, t.span.end.offset) = t.raw
  /\ (t.span.start.offset - RunAround(lexer.input, t.span.start.offset).from) % 3 = 0

\* C12, amended: every CommentStart token scanned is exactly three consecutive
\* "<" of the input and every CommentEnd token three consecutive ">", so a run
\* of one or two yields none; a longer run yields one token for each whole
\* group of three from its left end.
C12_GroupsOfThree ==
  \A t \in Seen :
    t.token_type.kind \in Delimiters => GroupOfThree(t, Bracket(t.token_type.kind))

\* a call returned two delimiter tokens scanned off one run of six brackets
C12_Witness ==
  /\ ret.tag = "Ok"
  /\ \E i \in 1..Len(ret.tokens) :
       /\ ret.tokens[i].token_type.kind \in Delimiters
       /\ ret.tokens[i].span.start.offset = 3
       /\ RunAround(lexer.input, 3) = [from |-> 0, to |-> 6]

(***************************************************************************)
(* Line, column and offset.                                                *)
(***************************************************************************)
Consistent(p) ==
  /\ p.offset <= Len(lexer.input)
  /\ p = PositionAt(lexer.input, p.offset)

\* C13: between any two tokens of a scan the cursor's line is 1 plus the
\* number of line breaks among the first offset characters and its column is
\* 1 plus the number of characters since the last of them; the same holds of
\* both ends of every token's span and of the position of every LexerError.
C13_PositionsConsistent ==
  /\ Consistent(current_position(lexer))
  /\ \A t \in Seen : Consistent(t.span.start) /\ Consistent(t.span.end)
  /\ ret.tag = "Err" => Consistent(ret.error.position)
  /\ \A r \in results :
       /\ r.tag = "Err" => Consistent(r.error.position)
       /\ \A i \in 1..Len(r.tokens) :
            Consistent(r.tokens[i].span.start) /\ Consistent(r.tokens[i].span.end)

\* a call returned a quoted string that spans several lines, then a line
\* break outside quotes, then a token that begins past column 1 of its line
C13_Witness ==
  /\ ret.tag = "Ok"
  /\ \E i, j \in 1..Len(ret.tokens) :
       /\ i < j
       /\ ret.tokens[i].token_type.kind = "QuotedString"
       /\ ret.tokens[i].span.end.line > ret.tokens[i].span.start.line
       /\ ret.tokens[j].span.start.line > ret.tokens[i].span.end.line
       /\ ret.tokens[j].span.start.column > 1
       /\ ret.tokens[j].span.end.offset > ret.tokens[j].span.start.offset

====
